---- MODULE Spec2Model ----
(***************************************************************************)
(* A model of tukaan/_misc.py: the colour conversion kernel (HEX, HSL,    *)
(* HSV, CMYK), the Color value object and the ScreenDistance converter.   *)
(*                                                                         *)
(* Strings are sequences of one-character strings.  A function that can   *)
(* raise, or whose float rounding can fall either way, is modelled by the *)
(* set of its possible outcomes.                                           *)
(***************************************************************************)
EXTENDS Integers, Sequences, FiniteSets, TLC

VARIABLES
    last,         \* the last call made: its operation, arguments and outcome
    nops,         \* number of state-changing calls made so far
    colors,       \* the Color objects the program holds, by identity
    display_dpi,  \* what the display reports for "winfo fpixels . 1i"
    dpi,          \* the attribute ScreenDistance.dpi of the class
    instances     \* the ScreenDistance objects constructed so far

distVars == <<display_dpi, dpi, instances>>
vars == <<last, nops, colors, display_dpi, dpi, instances>>

(***************************************************************************)
(* Bounds of the model.                                                    *)
(***************************************************************************)
\* the kernel is driven with channels on a grid of this step, plus the
\* values around the ends and the middle of the range
ChanStep == 51
\* longest keyword list and longest tuple passed to the Color constructor
MaxKwargs == 2
MaxArity == 5
\* number of operations applied to the Color slots in one behaviour
MaxOps == 3
\* number of ScreenDistance constructions in one behaviour
MaxInst == 2
\* largest amount passed to a ScreenDistance construction
MaxAmount == 2
\* longest digit string decoded by ScreenDistance.from_tcl
MaxDigits == 2

(***************************************************************************)
(* Floats.  A float is the exact rational n/d it stands for (d > 0, lowest *)
(* terms) and a flag x: TRUE when the float computation that produced it   *)
(* was free of rounding error, so that the float IS n/d.  Sums, differences *)
(* and products of exact floats are exact (all magnitudes here are far     *)
(* below 2^53); a quotient is exact only when it is a dyadic rational.     *)
(* An inexact float differs from n/d by a few units in the last place.     *)
(***************************************************************************)
\* The element of a singleton.  TLC hands the arguments of an operator on
\* unevaluated; the operators below bind theirs to values first, as
\*     The({body(x) : x \in {argument}}),
\* so that an argument is computed once however often the body uses it.
The(S) == CHOOSE r \in S : TRUE

Abs(x) == IF x < 0 THEN -x ELSE x
Min2(a, b) == IF a < b THEN a ELSE b

RECURSIVE GCD(_, _)
GCD(a0, b0) ==
    The({IF b = 0 THEN a ELSE GCD(b, a % b) : a \in {a0}, b \in {b0}})

RECURSIVE IsPow2(_)
IsPow2(d0) ==
    The({IF d = 1 THEN TRUE ELSE IF d % 2 = 1 THEN FALSE ELSE IsPow2(d \div 2) :
           d \in {d0}})

\* The direction in which a quotient n/d (n, d > 0, not a binary fraction)
\* is rounded to a float: binary long division to the 53 significant bits of
\* a double (the leading one and 4 times 13 more), scaled so that
\* 1 <= n/d < 2; the remainder left decides.
RECURSIVE Scaled(_, _)
Scaled(n0, d0) ==
    The({IF n >= 2 * d THEN Scaled(n, 2 * d)
         ELSE IF n < d THEN Scaled(2 * n, d)
         ELSE <<n, d>> : n \in {n0}, d \in {d0}})

\* the remainder after 13 more bits of the quotient
Shift13(r, d) == (8192 * r) % d

Rounding(n, d) ==
    The({The({IF 2 * r > s[2] THEN 1 ELSE -1 :
                r \in {Shift13(Shift13(Shift13(Shift13(s[1] - s[2], s[2]), s[2]),
                                       s[2]), s[2])}}) :
           s \in {Scaled(n, d)}})

Sign(i) == IF i > 0 THEN 1 ELSE IF i < 0 THEN -1 ELSE 0

\* A float is the rational n/d it stands for, in lowest terms, with what is
\* known of the double that holds it: x, that it is n/d exactly, and e,
\* 0 when exact, 1 when the double is n/d or above, -1 when it is n/d or
\* below, 2 when either.
Rat(n0, d0, x) ==
    The({The({[n |-> (s * n) \div g, d |-> (s * d) \div g, x |-> x,
               e |-> IF x THEN 0 ELSE 2] :
                g \in {GCD(Abs(n), Abs(d))}, s \in {IF d < 0 THEN -1 ELSE 1}}) :
           n \in {n0}, d \in {d0}})

\* float(i) of an integer
I2F(i) == [n |-> i, d |-> 1, x |-> TRUE, e |-> 0]

FAdd(a0, b0) ==
    The({The({Rat(a.n * (l \div a.d) + b.n * (l \div b.d), l, a.x /\ b.x) :
                l \in {(a.d \div GCD(a.d, b.d)) * b.d}}) :
           a \in {a0}, b \in {b0}})

FNeg(a0) ==
    The({[n |-> -a.n, d |-> a.d, x |-> a.x, e |-> IF a.e = 2 THEN 2 ELSE -a.e] :
           a \in {a0}})

FSub(a, b) == FAdd(a, FNeg(b))

\* a * b.  The product of a float that is its value or above by an exact
\* positive float is the exact product or above when that product is itself
\* a double (a binary fraction): rounding is monotone.
FMul(a0, b0) ==
    The({The({[n |-> p.n * q.n, d |-> p.d * q.d, x |-> a.x /\ b.x,
               e |-> IF a.x /\ b.x THEN 0
                     ELSE IF p.n * q.n = 0 \/ ~IsPow2(p.d * q.d) THEN 2
                     ELSE IF a.x /\ b.e # 2 THEN b.e * Sign(a.n)
                     ELSE IF b.x /\ a.e # 2 THEN a.e * Sign(b.n)
                     ELSE 2] :
                p \in {Rat(a.n, b.d, TRUE)}, q \in {Rat(b.n, a.d, TRUE)}}) :
           a \in {a0}, b \in {b0}})

\* a / b for b # 0 (the callers raise ZeroDivisionError themselves when b = 0)
\* The quotient of two exact floats is the double nearest to it.
FDiv(a0, b0) ==
    The({The({[q EXCEPT !.x = a.x /\ b.x /\ IsPow2(q.d),
                        !.e = IF ~(a.x /\ b.x) THEN 2
                              ELSE IF IsPow2(q.d) THEN 0
                              ELSE Sign(q.n) * Rounding(Abs(q.n), q.d)] :
                q \in {FMul([a EXCEPT !.x = TRUE, !.e = 0], Rat(b.d, b.n, TRUE))}}) :
           a \in {a0}, b \in {b0}})

FLt(a, b) == FSub(a, b).n < 0
FLe(a, b) == FSub(a, b).n <= 0
FEq(a0, b0) == The({a.n = b.n /\ a.d = b.d : a \in {a0}, b \in {b0}})
FIsZero(a) == a.n = 0

FMin(a0, b0) == The({IF FLt(b, a) THEN b ELSE a : a \in {a0}, b \in {b0}})
FMax(a0, b0) == The({IF FLt(a, b) THEN b ELSE a : a \in {a0}, b \in {b0}})
FMin3(a, b, c) == FMin(FMin(a, b), c)
FMax3(a, b, c) == FMax(FMax(a, b), c)

\* int(a): truncation, used on non-negative floats only
FInt(a0) == The({a.n \div a.d : a \in {a0}})

\* a % m for a positive integer m (Python: the result has the sign of m)
FMod(a0, m) == The({FSub(a, I2F(m * (a.n \div (a.d * m)))) : a \in {a0}})

\* Python round(a) / round(a, 0): the nearest integer, ties to the even
\* integer.  When n/d is a tie and the float is inexact, the double is the
\* tie itself or lies just beside it: on the side e tells, or on either
\* side when e tells none.
round(a0) ==
    The({The({IF r2 < a.d THEN {q}
              ELSE IF r2 > a.d THEN {q + 1}
              ELSE IF a.x THEN {even}
              ELSE IF a.e = 1 THEN {even, q + 1}
              ELSE IF a.e = -1 THEN {even, q}
              ELSE {q, q + 1} :
                q \in {a.n \div a.d}, r2 \in {2 * (a.n % a.d)},
                even \in {2 * ((a.n \div a.d + 1) \div 2)}}) :
           a \in {a0}})

intround(a) == round(a)

(***************************************************************************)
(* HEX                                                                     *)
(***************************************************************************)
HexLower == <<"0","1","2","3","4","5","6","7","8","9","a","b","c","d","e","f">>
HexUpper == <<"0","1","2","3","4","5","6","7","8","9","A","B","C","D","E","F">>
HexChars == {HexLower[i] : i \in 1..16} \cup {HexUpper[i] : i \in 1..16}

RECURSIVE HexDigits(_)
\* the lowercase hexadecimal digits of n >= 0, most significant first
HexDigits(n0) ==
    The({IF n < 16 THEN <<HexLower[n + 1]>>
         ELSE Append(HexDigits(n \div 16), HexLower[(n % 16) + 1]) : n \in {n0}})

\* format(n, "02x"): sign, then digits, zero padded to a width of two
Format02x(n) ==
    LET ds == IF n < 0 THEN <<"-">> \o HexDigits(-n) ELSE HexDigits(n)
    IN  IF Len(ds) < 2 THEN <<"0">> \o ds ELSE ds

to_hex(r, g, b) == <<"#">> \o Format02x(r) \o Format02x(g) \o Format02x(b)

HexVal(c) ==
    IF \E i \in 1..16 : HexLower[i] = c
    THEN (CHOOSE i \in 1..16 : HexLower[i] = c) - 1
    ELSE (CHOOSE i \in 1..16 : HexUpper[i] = c) - 1

RECURSIVE Int16(_)
\* int(s, 16) for a non-empty sequence of hexadecimal digits
Int16(s0) ==
    The({IF Len(s) = 1 THEN HexVal(s[1])
         ELSE 16 * Int16(SubSeq(s, 1, Len(s) - 1)) + HexVal(s[Len(s)]) : s \in {s0}})

RECURSIVE LStripHash(_)
LStripHash(s0) ==
    The({IF Len(s) > 0 /\ s[1] = "#" THEN LStripHash(Tail(s)) ELSE s : s \in {s0}})

\* a slip in the masks: the green byte keeps the red bits above it
from_hex_nomask(hex) ==
    LET int_value == Int16(LStripHash(hex))
    IN  <<int_value \div 65536, int_value \div 256, int_value % 256>>

from_hex(hex) ==
    LET int_value == Int16(LStripHash(hex))
    IN  <<int_value \div 65536, (int_value \div 256) % 256, int_value % 256>>

(***************************************************************************)
(* HSL                                                                     *)
(***************************************************************************)
\* the outcome of a call that raised ZeroDivisionError instead of returning
ZeroDivisionError == <<"ZeroDivisionError">>

Tuple3(A, B, C) == {<<a, b, c>> : a \in A, b \in B, c \in C}
Tuple4(A, B, C, D) == {<<a, b, c, e>> : a \in A, b \in B, c \in C, e \in D}

to_hsl(r0, g0, b0) ==
    LET r == FDiv(I2F(r0), I2F(255))
        g == FDiv(I2F(g0), I2F(255))
        b == FDiv(I2F(b0), I2F(255))
        min_value == FMin3(r, g, b)
        max_value == FMax3(r, g, b)
        l == FDiv(FAdd(min_value, max_value), I2F(2))
        diff == FSub(max_value, min_value)
        s == IF FLe(l, Rat(1, 2, TRUE))
             THEN FDiv(diff, FAdd(max_value, min_value))
             ELSE FDiv(diff, FSub(FSub(I2F(2), max_value), min_value))
        h == IF FEq(max_value, r) THEN FDiv(FSub(g, b), diff)
             ELSE IF FEq(max_value, g) THEN FAdd(I2F(2), FDiv(FSub(b, g), diff))
             ELSE FAdd(I2F(4), FDiv(FSub(r, g), diff))
    IN  IF FEq(min_value, max_value)
        THEN Tuple3({0}, {0}, intround(FMul(l, I2F(100))))
        ELSE Tuple3(intround(FMul(h, I2F(60))),
                    intround(FMul(s, I2F(100))),
                    intround(FMul(l, I2F(100))))

from_hsl(h0, s0, l0) ==
    LET h == FDiv(I2F(h0), I2F(360))
        s == FDiv(I2F(s0), I2F(100))
        l == FDiv(I2F(l0), I2F(100))
        half == Rat(1, 2, TRUE)
        tmp_1 == IF ~FLt(l, half)
                 THEN FSub(FAdd(l, s), FMul(l, s))
                 ELSE FMul(l, FAdd(I2F(1), s))
        tmp_2 == FSub(FMul(I2F(2), l), tmp_1)
        func(hh) ==
            LET hm == FMod(hh, 1)
            IN  IF FLt(hm, FDiv(I2F(1), I2F(6)))
                THEN FAdd(tmp_2, FMul(FMul(FSub(tmp_1, tmp_2), hm), I2F(6)))
                ELSE IF FLt(hm, half) THEN tmp_1
                ELSE IF FLt(hm, FDiv(I2F(2), I2F(3)))
                THEN FAdd(tmp_2, FMul(FMul(FSub(tmp_1, tmp_2),
                                           FSub(FDiv(I2F(2), I2F(3)), hm)), I2F(6)))
                ELSE tmp_2
        third == FDiv(I2F(1), I2F(3))
        r == func(FAdd(h, third))
        g == func(h)
        b == func(FSub(h, third))
    IN  IF FIsZero(s)
        THEN \* (intround(l * 255),) * 3: one rounding, repeated
             {<<c, c, c>> : c \in intround(FMul(l, I2F(255)))}
        ELSE Tuple3(intround(FMul(r, I2F(255))),
                    intround(FMul(g, I2F(255))),
                    intround(FMul(b, I2F(255))))

(***************************************************************************)
(* HSV                                                                     *)
(***************************************************************************)
to_hsv(r0, g0, b0) ==
    LET r == FDiv(I2F(r0), I2F(255))
        g == FDiv(I2F(g0), I2F(255))
        b == FDiv(I2F(b0), I2F(255))
        high == FMax3(r, g, b)
        low == FMin3(r, g, b)
        diff == FSub(high, low)
        s == IF FIsZero(high) THEN I2F(0) ELSE FMul(FDiv(diff, high), I2F(100))
        v == FMul(high, I2F(100))
        \* the hue branches divide by diff whatever its value
        h == IF FEq(high, r)
             THEN FMod(FAdd(FMul(I2F(60), FDiv(FSub(g, b), diff)), I2F(360)), 360)
             ELSE IF FEq(high, g)
             THEN FMod(FAdd(FMul(I2F(60), FDiv(FSub(b, r), diff)), I2F(120)), 360)
             ELSE IF FEq(high, b)
             THEN FMod(FAdd(FMul(I2F(60), FDiv(FSub(r, g), diff)), I2F(240)), 360)
             ELSE I2F(0)
    IN  IF FIsZero(diff)
        THEN {ZeroDivisionError}
        ELSE Tuple3(intround(h), intround(s), intround(v))

from_hsv(h0, s0, v0) ==
    LET h == FDiv(I2F(h0), I2F(360))
        s == FDiv(I2F(s0), I2F(100))
        v == FDiv(I2F(v0), I2F(100))
        h6 == FMul(h, I2F(6))
        i == FInt(h6)
        f == FSub(h6, I2F(i))
        one == I2F(1)
        p == FMul(v, FSub(one, s))
        q == FMul(v, FSub(one, FMul(s, f)))
        t == FMul(v, FSub(one, FMul(s, FSub(one, f))))
        table == << <<v, t, p>>, <<q, v, p>>, <<p, v, t>>,
                    <<p, q, v>>, <<t, p, v>>, <<v, p, q>> >>
        rgb == table[(i % 6) + 1]
    IN  IF FIsZero(s)
        THEN \* the same float v * 255 rounded three times
             {<<c, c, c>> : c \in intround(FMul(v, I2F(255)))}
        ELSE Tuple3(intround(FMul(rgb[1], I2F(255))),
                    intround(FMul(rgb[2], I2F(255))),
                    intround(FMul(rgb[3], I2F(255))))

(***************************************************************************)
(* CMYK                                                                    *)
(***************************************************************************)
to_cmyk(r, g, b) ==
    LET c0 == FSub(I2F(1), FDiv(I2F(r), I2F(255)))
        m0 == FSub(I2F(1), FDiv(I2F(g), I2F(255)))
        y0 == FSub(I2F(1), FDiv(I2F(b), I2F(255)))
        k == FMin3(c0, m0, y0)
        c == FSub(c0, k)
        m == FSub(m0, k)
        y == FSub(y0, k)
    IN  IF <<r, g, b>> = <<0, 0, 0>>
        THEN {<<0, 0, 0, 100>>}
        ELSE Tuple4(intround(FMul(c, I2F(100))), intround(FMul(m, I2F(100))),
                    intround(FMul(y, I2F(100))), intround(FMul(k, I2F(100))))

from_cmyk(c0, m0, y0, k0) ==
    LET c == FDiv(I2F(c0), I2F(100))
        m == FDiv(I2F(m0), I2F(100))
        y == FDiv(I2F(y0), I2F(100))
        k == FDiv(I2F(k0), I2F(100))
        chan(x) == FSub(I2F(255),
                        FMul(FMin(I2F(1), FAdd(FMul(x, FSub(I2F(1), k)), k)), I2F(255)))
    IN  Tuple3(intround(chan(c)), intround(chan(m)), intround(chan(y)))

(***************************************************************************)
(* Color                                                                   *)
(*                                                                         *)
(* An object is the map of its attributes; a Color under construction      *)
(* starts with none.  The constructor takes name (None or a string) and    *)
(* kwargs, the sequence of <<keyword, value>> pairs in call order.  An      *)
(* outcome is [raised, self]: the exception raised ("none" when the call   *)
(* returns) and the attributes of the object when the call ends.           *)
(***************************************************************************)
None == <<"None">>
NoAttrs == [a \in {} |-> 0]

_supported_color_spaces == {"hex", "rgb", "hsv", "cmyk", "hsl"}
_length_dict == [rgb |-> 3, hsv |-> 3, cmyk |-> 4, hsl |-> 3]
_maximum_values ==
    [rgb |-> <<255, 255, 255>>, hsv |-> <<360, 100, 100>>,
     hsl |-> <<360, 100, 100>>, cmyk |-> <<100, 100, 100, 100>>]

\* a slip in the comparison: the maximum itself is refused
_check_in_range_strict(space, color) ==
    \A i \in 1..Min2(Len(_maximum_values[space]), Len(color)) :
        0 <= color[i] /\ color[i] < _maximum_values[space][i]

\* zip() stops at the shorter of the two sequences
_check_in_range(space, color) ==
    \A i \in 1..Min2(Len(_maximum_values[space]), Len(color)) :
        0 <= color[i] /\ color[i] <= _maximum_values[space][i]

\* re.match(r"^#[0-9a-fA-F]{6}$", color)
HexMatch(color) ==
    /\ Len(color) = 7
    /\ color[1] = "#"
    /\ \A i \in 2..7 : color[i] \in HexChars

Truthy(name) == name # None /\ Len(name) > 0

Raise(exc) == [raised |-> exc, self |-> NoAttrs]
Assigned(t) == [raised |-> "none",
                self |-> [red |-> t[1], green |-> t[2], blue |-> t[3]]]

Color_init(name, kwargs) ==
    IF Len(kwargs) > 1 THEN {Raise("ValueError")}
    ELSE IF Truthy(name) /\ Len(kwargs) > 0 THEN {Raise("ValueError")}
    \* tuple(kwargs.values())[0] and tuple(kwargs.keys())[0] of an empty dict
    ELSE IF ~Truthy(name) /\ Len(kwargs) = 0 THEN {Raise("IndexError")}
    ELSE
        LET color == IF name = None THEN kwargs[1][2] ELSE name
            space == IF Truthy(name) THEN "hex" ELSE kwargs[1][1]
        IN  IF space = "hex"
            THEN IF ~HexMatch(color) THEN {Raise("ColorError")}
                 ELSE {Assigned(from_hex(color))}
            \* KeyError from _length_dict[space] is turned into ColorError
            ELSE IF space \notin DOMAIN _length_dict THEN {Raise("ColorError")}
            ELSE IF Len(color) = _length_dict[space] /\ _check_in_range(space, color)
            THEN IF space = "rgb" THEN {Assigned(color)}
                 ELSE IF space = "hsl"
                 THEN {Assigned(t) : t \in from_hsl(color[1], color[2], color[3])}
                 ELSE IF space = "hsv"
                 THEN {Assigned(t) : t \in from_hsv(color[1], color[2], color[3])}
                 ELSE {Assigned(t) : t \in from_cmyk(color[1], color[2], color[3], color[4])}
            ELSE {Raise("ColorError")}

\* Color.rgb
Color_rgb(self) == <<self.red, self.green, self.blue>>

\* Color.hex and Color.to_tcl
Color_hex(self) == to_hex(self.red, self.green, self.blue)
Color_to_tcl(self) == Color_hex(self)

\* Color.from_tcl
Color_from_tcl(tcl_value) == Color_init(tcl_value, <<>>)

\* an invert that complements to 256 instead of 255
Color_invert_256(self) ==
    [red |-> 256 - self.red, green |-> 256 - self.green, blue |-> 256 - self.blue]

\* Color.invert: the object itself, its channels replaced
Color_invert(self) ==
    [red |-> 255 - self.red, green |-> 255 - self.green, blue |-> 255 - self.blue]

\* an operand of mix that is not a Color
NotAColor == [distance |-> 0]
IsColor(obj) == DOMAIN obj = {"red", "green", "blue"}

\* a slip in the weights: the two amounts exchanged
Color_mix_swapped(self, other, ratio) ==
    IF ~IsColor(other) THEN {Raise("TypeError")}
    ELSE IF ratio[1] + ratio[2] = 0 THEN {Raise("ZeroDivisionError")}
    ELSE
        LET a == ratio[1]
            b == ratio[2]
            amount_of_clr_1 == FMul(FDiv(I2F(1), I2F(a + b)), I2F(b))
            amount_of_clr_2 == FMul(FDiv(I2F(1), I2F(a + b)), I2F(a))
            chan(value1, value2) ==
                round(FAdd(FMul(amount_of_clr_1, I2F(value1)),
                           FMul(amount_of_clr_2, I2F(value2))))
        IN  UNION {Color_init(None, << <<"rgb", t>> >>) :
                     t \in Tuple3(chan(self.red, other.red),
                                  chan(self.green, other.green),
                                  chan(self.blue, other.blue))}

\* Color.mix; ratio is <<a, b>>, the float's as_integer_ratio()
Color_mix(self, other, ratio) ==
    IF ~IsColor(other) THEN {Raise("TypeError")}
    ELSE IF ratio[1] + ratio[2] = 0 THEN {Raise("ZeroDivisionError")}
    ELSE
        LET a == ratio[1]
            b == ratio[2]
            amount_of_clr_1 == FMul(FDiv(I2F(1), I2F(a + b)), I2F(a))
            amount_of_clr_2 == FMul(FDiv(I2F(1), I2F(a + b)), I2F(b))
            chan(value1, value2) ==
                round(FAdd(FMul(amount_of_clr_1, I2F(value1)),
                           FMul(amount_of_clr_2, I2F(value2))))
        IN  UNION {Color_init(None, << <<"rgb", t>> >>) :
                     t \in Tuple3(chan(self.red, other.red),
                                  chan(self.green, other.green),
                                  chan(self.blue, other.blue))}

\* Color.__or__
Color_or(self, other) == Color_mix(self, other, <<1, 1>>)

\* Color.hsv and Color.cmyk
Color_hsv(self) == to_hsv(self.red, self.green, self.blue)
Color_cmyk(self) == to_cmyk(self.red, self.green, self.blue)

(***************************************************************************)
(* The constructor as a function of its arguments: one call of Color(...)  *)
(* on every argument list of the bounded sets below.                       *)
(***************************************************************************)
Keywords == {"rgb", "hsv", "hsl", "cmyk", "yiq"}

\* components around every limit the constructor tests
CompValues == {-1, 0, 100, 101, 255, 256, 360, 361}
\* tuples of an arity no space has are refused whatever they hold
OtherValues == {0, 100, 256}

TupleInputs ==
    UNION {[1..n -> IF n \in {3, 4} THEN CompValues ELSE OtherValues] : n \in 0..MaxArity}

NameInputs ==
    {None, <<>>,
     <<"#","0","0","0","0","0","0">>, <<"#","f","f","f","f","f","f">>,
     <<"#","F","F","8","0","0","0">>, <<"#","0","a","1","4","1","e">>,
     <<"#","f","f","0","0">>, <<"f","f","0","0","0","0","0">>,
     <<"#","g","g","0","0","0","0">>, <<"#","f","f","0","0","0","0","0">>}

SampleTuples == {<<1, 2, 3>>, <<256, 0, 0>>, <<0, 25, 38, 50>>}

\* keyword lists of 1..MaxKwargs distinct keywords
SampleKwargs ==
    UNION {{kw \in [1..n -> Keywords \X SampleTuples] :
               \A i, j \in 1..n : i # j => kw[i][1] # kw[j][1]} : n \in 1..MaxKwargs}

CtorArgs ==
    {<<name, <<>> >> : name \in NameInputs}
    \cup {<<None, << <<k, t>> >> >> : k \in Keywords, t \in TupleInputs}
    \cup {<<name, kw>> : name \in NameInputs, kw \in SampleKwargs}

Idle == [op |-> "none"]

ObjIds == {1, 2}

\* DPI values the display reports in the model
DpiValues == {72, 96}

\* no call made yet, no object constructed, the class attribute
\* ScreenDistance.dpi not yet defined
Init ==
    /\ last = Idle
    /\ nops = 0
    /\ colors = [i \in ObjIds |-> NoAttrs]
    /\ display_dpi = 72
    /\ dpi = NoAttrs
    /\ instances = <<>>

Construct ==
    /\ nops = 0
    /\ \E args \in CtorArgs :
         \E out \in Color_init(args[1], args[2]) :
            last' = [op |-> "Color", name |-> args[1], kwargs |-> args[2],
                     raised |-> out.raised, self |-> out.self]
    /\ nops' = 1
    /\ UNCHANGED <<colors, distVars>>

NextCtor == Construct

SpecCtor == Init /\ [][NextCtor]_vars

(***************************************************************************)
(* C1: a Color built from exactly one keyword rgb/hsv/hsl/cmyk and a tuple *)
(* of integers is constructed if and only if the tuple has the arity of    *)
(* the space and every component lies in 0..maximum of that component;     *)
(* otherwise ColorError is raised and no channel has been assigned.        *)
(***************************************************************************)
C1_Spaces == {"rgb", "hsv", "hsl", "cmyk"}
C1_Arity(space) == IF space = "cmyk" THEN 4 ELSE 3
C1_Max(space, i) ==
    IF space = "rgb" THEN 255
    ELSE IF space = "cmyk" THEN 100
    ELSE IF i = 1 THEN 360 ELSE 100

C1_WellFormed(space, t) ==
    /\ Len(t) = C1_Arity(space)
    /\ \A i \in 1..Len(t) : 0 <= t[i] /\ t[i] <= C1_Max(space, i)

C1_Case ==
    /\ last.op = "Color"
    /\ last.name = None
    /\ Len(last.kwargs) = 1
    /\ last.kwargs[1][1] \in C1_Spaces

C1_ConstructionIffWellFormed ==
    C1_Case =>
        IF C1_WellFormed(last.kwargs[1][1], last.kwargs[1][2])
        THEN last.raised = "none" /\ DOMAIN last.self = {"red", "green", "blue"}
        ELSE last.raised = "ColorError" /\ last.self = NoAttrs

\* the extreme hsv tuple is accepted, and the same tuple is refused as cmyk
C1_Witness ==
    /\ C1_Case
    /\ last.kwargs[1] = <<"hsv", <<360, 100, 100>> >>
    /\ last.raised = "none"

(***************************************************************************)
(* C8: Color() with no argument, Color(hex, keyword) and Color with more   *)
(* than one keyword all fail with the constructor's ValueError.            *)
(***************************************************************************)
C8_Case ==
    /\ last.op = "Color"
    /\ \/ last.name = None /\ Len(last.kwargs) = 0
       \/ Truthy(last.name) /\ Len(last.kwargs) > 0
       \/ Len(last.kwargs) > 1

C8_ArgumentCountIsValueError == C8_Case => last.raised = "ValueError"

(***************************************************************************)
(* The conversion kernel as functions of their arguments: a conversion     *)
(* from RGB is applied to an input triple, then the inverse conversion to  *)
(* its result: the round trip from_hsv(to_hsv(r, g, b)) and its likes.     *)
(***************************************************************************)
Channels ==
    {c \in 0..255 : c % ChanStep = 0} \cup {1, 2, 64, 127, 128, 254, 255}

\* every byte value in every position, the other channels at an extreme
ChannelLines ==
    {<<c, e, f>> : c \in 0..255, e \in {0, 255}, f \in {0, 255}}
    \cup {<<e, c, f>> : c \in 0..255, e \in {0, 255}, f \in {0, 255}}
    \cup {<<e, f, c>> : c \in 0..255, e \in {0, 255}, f \in {0, 255}}

RGBInputs == (Channels \X Channels \X Channels) \cup ChannelLines

ToHex ==
    /\ last.op = "none"
    /\ \E rgb \in RGBInputs :
         last' = [op |-> "to_hex", rgb |-> rgb, enc |-> to_hex(rgb[1], rgb[2], rgb[3])]
    /\ nops' = nops + 1
    /\ UNCHANGED <<colors, distVars>>

FromHex ==
    /\ last.op = "to_hex"
    /\ last' = [op |-> "from_hex", rgb |-> last.rgb, enc |-> last.enc,
                dec |-> from_hex(last.enc)]
    /\ nops' = nops + 1
    /\ UNCHANGED <<colors, distVars>>

ToHsv ==
    /\ last.op = "none"
    /\ \E rgb \in RGBInputs :
         \E out \in to_hsv(rgb[1], rgb[2], rgb[3]) :
            last' = [op |-> "to_hsv", rgb |-> rgb, enc |-> out]
    /\ nops' = nops + 1
    /\ UNCHANGED <<colors, distVars>>

FromHsv ==
    /\ last.op = "to_hsv"
    /\ last.enc # ZeroDivisionError
    /\ \E out \in from_hsv(last.enc[1], last.enc[2], last.enc[3]) :
         last' = [op |-> "from_hsv", rgb |-> last.rgb, enc |-> last.enc, dec |-> out]
    /\ nops' = nops + 1
    /\ UNCHANGED <<colors, distVars>>

ToHsl ==
    /\ last.op = "none"
    /\ \E rgb \in RGBInputs :
         \E out \in to_hsl(rgb[1], rgb[2], rgb[3]) :
            last' = [op |-> "to_hsl", rgb |-> rgb, enc |-> out]
    /\ nops' = nops + 1
    /\ UNCHANGED <<colors, distVars>>

FromHsl ==
    /\ last.op = "to_hsl"
    /\ \E out \in from_hsl(last.enc[1], last.enc[2], last.enc[3]) :
         last' = [op |-> "from_hsl", rgb |-> last.rgb, enc |-> last.enc, dec |-> out]
    /\ nops' = nops + 1
    /\ UNCHANGED <<colors, distVars>>

ToCmyk ==
    /\ last.op = "none"
    /\ \E rgb \in RGBInputs :
         \E out \in to_cmyk(rgb[1], rgb[2], rgb[3]) :
            last' = [op |-> "to_cmyk", rgb |-> rgb, enc |-> out]
    /\ nops' = nops + 1
    /\ UNCHANGED <<colors, distVars>>

FromCmyk ==
    /\ last.op = "to_cmyk"
    /\ \E out \in from_cmyk(last.enc[1], last.enc[2], last.enc[3], last.enc[4]) :
         last' = [op |-> "from_cmyk", rgb |-> last.rgb, enc |-> last.enc, dec |-> out]
    /\ nops' = nops + 1
    /\ UNCHANGED <<colors, distVars>>

NextHex == ToHex \/ FromHex

NextKernel ==
    \/ ToHex \/ FromHex
    \/ ToHsv \/ FromHsv
    \/ ToHsl \/ FromHsl
    \/ ToCmyk \/ FromCmyk

SpecKernel == Init /\ [][NextKernel]_vars

\* |a - b| <= 1 on every channel
Within1(a, b) == \A i \in 1..3 : Abs(a[i] - b[i]) <= 1

(***************************************************************************)
(* C4: for all RGB triples in [0,255]^3, from_hsv of to_hsv(r,g,b) is      *)
(* defined and reproduces (r,g,b) within +/-1 on each channel.             *)
(***************************************************************************)
C4_HsvRoundTrip ==
    /\ last.op = "to_hsv" => last.enc # ZeroDivisionError
    /\ last.op = "from_hsv" => Within1(last.dec, last.rgb)

(***************************************************************************)
(* C5: for all RGB triples in [0,255]^3, from_hsl of to_hsl(r,g,b)         *)
(* reproduces (r,g,b) within +/-1 on each channel.                         *)
(***************************************************************************)
C5_HslRoundTrip ==
    last.op = "from_hsl" => Within1(last.dec, last.rgb)

(***************************************************************************)
(* C6: for all RGB triples in [0,255]^3, from_cmyk of to_cmyk(r,g,b)       *)
(* reproduces (r,g,b) within +/-1 on each channel.                         *)
(***************************************************************************)
C6_CmykRoundTrip ==
    last.op = "from_cmyk" => Within1(last.dec, last.rgb)

(***************************************************************************)
(* The life of Color objects: constructions, in-place inversions, mixes,   *)
(* and reads of the derived representations.  Reads change no object and   *)
(* are not counted in nops.                                                *)
(***************************************************************************)
KernelOps == {"to_hex", "from_hex", "to_hsv", "from_hsv",
              "to_hsl", "from_hsl", "to_cmyk", "from_cmyk"}

ColorArgs ==
    {<<None, << <<"rgb", <<0, 0, 0>> >> >> >>,
     <<None, << <<"rgb", <<255, 255, 255>> >> >> >>,
     <<None, << <<"rgb", <<256, 0, 0>> >> >> >>,
     <<None, << <<"hsv", <<360, 100, 100>> >> >> >>,
     <<None, << <<"hsl", <<120, 100, 50>> >> >> >>,
     <<None, << <<"cmyk", <<0, 25, 38, 50>> >> >> >>,
     << <<"#","0","a","1","4","1","e">>, <<>> >>}

\* ratio floats as <<numerator, denominator>>: 0.5, 1.0, -0.5, -1.0
Ratios == {<<1, 2>>, <<1, 1>>, <<-1, 2>>, <<-1, 1>>}

Allocated == {i \in ObjIds : IsColor(colors[i])}

ColorStep == last.op \notin KernelOps /\ nops < MaxOps

Free == ObjIds \ Allocated
Lowest(S) == CHOOSE i \in S : \A j \in S : i <= j

\* Color(...): on success the program holds one more object
NewColor ==
    /\ ColorStep
    /\ Free # {}
    /\ \E args \in ColorArgs :
         \E out \in Color_init(args[1], args[2]) :
            /\ last' = [op |-> "Color", name |-> args[1], kwargs |-> args[2],
                        raised |-> out.raised, self |-> out.self]
            /\ colors' = IF out.raised = "none"
                         THEN [colors EXCEPT ![Lowest(Free)] = out.self] ELSE colors
    /\ nops' = nops + 1
    /\ UNCHANGED distVars

\* x.invert()
Invert ==
    /\ ColorStep
    /\ \E i \in Allocated :
         /\ last' = [op |-> "invert", before |-> Color_rgb(colors[i]),
                     raised |-> "none", self |-> Color_invert(colors[i])]
         /\ colors' = [colors EXCEPT ![i] = Color_invert(colors[i])]
    /\ nops' = nops + 1
    /\ UNCHANGED distVars

\* x = x.mix(y, ratio): on success the program holds the new object for x
Mix ==
    /\ ColorStep
    /\ \E i \in Allocated, ratio \in Ratios :
         \E other \in {colors[j] : j \in Allocated} \cup {NotAColor} :
            \E out \in Color_mix(colors[i], other, ratio) :
               /\ last' = [op |-> "mix", x |-> colors[i], y |-> other,
                           ratio |-> ratio, raised |-> out.raised, self |-> out.self]
               /\ colors' = IF out.raised = "none"
                            THEN [colors EXCEPT ![i] = out.self] ELSE colors
    /\ nops' = nops + 1
    /\ UNCHANGED distVars

\* x = x | y
Or ==
    /\ ColorStep
    /\ \E i \in Allocated, j \in Allocated :
         \E out \in Color_or(colors[i], colors[j]) :
            /\ last' = [op |-> "or", x |-> colors[i], y |-> colors[j],
                        raised |-> out.raised, self |-> out.self]
            /\ colors' = IF out.raised = "none"
                         THEN [colors EXCEPT ![i] = out.self] ELSE colors
    /\ nops' = nops + 1
    /\ UNCHANGED distVars

\* x.hsv
ReadHsv ==
    /\ last.op \notin KernelOps
    /\ \E i \in Allocated :
         \E out \in Color_hsv(colors[i]) :
            last' = [op |-> "hsv", rgb |-> Color_rgb(colors[i]), result |-> out]
    /\ UNCHANGED <<nops, colors, distVars>>

\* x.cmyk
ReadCmyk ==
    /\ last.op \notin KernelOps
    /\ \E i \in Allocated :
         \E out \in Color_cmyk(colors[i]) :
            last' = [op |-> "cmyk", rgb |-> Color_rgb(colors[i]), result |-> out]
    /\ UNCHANGED <<nops, colors, distVars>>

\* x.to_tcl(): the string handed to the toolkit
ToTcl ==
    /\ last.op \notin KernelOps
    /\ \E i \in Allocated :
         last' = [op |-> "to_tcl", rgb |-> Color_rgb(colors[i]),
                  value |-> Color_to_tcl(colors[i])]
    /\ UNCHANGED <<nops, colors, distVars>>

\* Color.from_tcl(s) of the string x.to_tcl() returned
FromTcl ==
    /\ last.op = "to_tcl"
    /\ \E out \in Color_from_tcl(last.value) :
         last' = [op |-> "from_tcl", rgb |-> last.rgb, value |-> last.value,
                  raised |-> out.raised, self |-> out.self]
    /\ UNCHANGED <<nops, colors, distVars>>

NextColor ==
    \/ NewColor \/ Invert \/ Mix \/ Or
    \/ ReadHsv \/ ReadCmyk \/ ToTcl \/ FromTcl

SpecColor == Init /\ [][NextColor]_vars

\* the Color objects together with the HEX functions they encode with
SpecTcl == Init /\ [][NextColor \/ NextHex]_vars

(***************************************************************************)
(* C2: from_hex(to_hex(r,g,b)) = (r,g,b) for all r,g,b in [0,255], and so  *)
(* for every Color c reachable by construction, invert and mix,            *)
(* Color.from_tcl(c.to_tcl()) is a Color with the channels of c.           *)
(***************************************************************************)
C2_HexRoundTrip ==
    /\ last.op = "from_hex" => last.dec = last.rgb
    /\ last.op = "from_tcl" =>
          last.raised = "none" /\ Color_rgb(last.self) = last.rgb

\* the result of a mix, (0,0,0) mixed with (255,255,255) at 0.5, decoded
\* from its own encoding
C2_Witness ==
    /\ last.op = "from_tcl"
    /\ last.value = <<"#","a","a","a","a","a","a">>
    /\ last.raised = "none"

(***************************************************************************)
(* C3: for every gray level g, reading the hsv of Color(rgb=(g,g,g))       *)
(* raises nothing and returns hue 0, saturation 0 and the value            *)
(* g*100/255 rounded to an integer.                                        *)
(***************************************************************************)
C3_Gray(t) == t[1] = t[2] /\ t[2] = t[3]

C3_GrayHsvIsAchromatic ==
    (last.op = "hsv" /\ C3_Gray(last.rgb)) =>
        /\ last.result # ZeroDivisionError
        /\ last.result[1] = 0
        /\ last.result[2] = 0
        /\ 2 * Abs(255 * last.result[3] - 100 * last.rgb[1]) <= 255

(***************************************************************************)
(* C7 as stated: x.mix(y, 0.5) returns a Color whose every channel is      *)
(* within +/-1 of the midpoint (x_channel + y_channel)/2.                  *)
(***************************************************************************)
C7_Case(ratio) ==
    /\ last.op = "mix"
    /\ last.ratio = ratio
    /\ IsColor(last.y)

\* every channel of the result c is within +/-1 of (wx*x + wy*y)/(wx + wy)
C7_Weighted(c, x, y, wx, wy) ==
    /\ Abs((wx + wy) * c.red - (wx * x.red + wy * y.red)) <= wx + wy
    /\ Abs((wx + wy) * c.green - (wx * x.green + wy * y.green)) <= wx + wy
    /\ Abs((wx + wy) * c.blue - (wx * x.blue + wy * y.blue)) <= wx + wy

C7_MixHalfIsMidpoint ==
    C7_Case(<<1, 2>>) =>
        last.raised = "none" /\ C7_Weighted(last.self, last.x, last.y, 1, 1)

(***************************************************************************)
(* C7 amended: x.mix(y, 0.5) returns a Color whose every channel is within *)
(* +/-1 of (x_channel + 2*y_channel)/3, the ratio 0.5 = 1/2 weighting x    *)
(* and y as 1 to 2, so that (0,0,0) mixed with (255,255,255) at 0.5 is     *)
(* (170,170,170); the midpoint is what ratio 1.0 and x | y return.         *)
(***************************************************************************)
C7_MixHalfIsOneToTwo ==
    /\ C7_Case(<<1, 2>>) =>
          last.raised = "none" /\ C7_Weighted(last.self, last.x, last.y, 1, 2)
    /\ (C7_Case(<<1, 2>>) /\ Color_rgb(last.x) = <<0, 0, 0>>
                          /\ Color_rgb(last.y) = <<255, 255, 255>>) =>
          Color_rgb(last.self) = <<170, 170, 170>>
    /\ (C7_Case(<<1, 1>>) \/ last.op = "or") =>
          last.raised = "none" /\ C7_Weighted(last.self, last.x, last.y, 1, 1)

C7_Witness ==
    /\ C7_Case(<<1, 2>>)
    /\ Color_rgb(last.x) = <<0, 0, 0>>
    /\ Color_rgb(last.y) = <<255, 255, 255>>
    /\ last.raised = "none"

(***************************************************************************)
(* Colors built from the extreme values of every color space, then         *)
(* inverted and mixed.                                                     *)
(***************************************************************************)
\* the least, a middle and the greatest value of hue and of a percentage
HueValues == {0, 300, 360}
PctValues == {0, 50, 100}

ExtremeArgs ==
    {<<None, << <<"rgb", t>> >> >> : t \in {<<0, 0, 0>>, <<255, 255, 255>>, <<255, 0, 128>>}}
    \cup {<<None, << <<"hsv", <<h, s, v>> >> >> >> :
             h \in HueValues, s \in {0, 100}, v \in PctValues}
    \cup {<<None, << <<"hsl", <<h, s, l>> >> >> >> :
             h \in HueValues, s \in {0, 100}, l \in PctValues}
    \cup {<<None, << <<"cmyk", <<c, m, 0, k>> >> >> >> :
             c \in {0, 100}, m \in {0, 100}, k \in PctValues}
    \cup {<<None, << <<"cmyk", <<100, 100, 100, 100>> >> >> >>,
          << <<"#","F","F","F","F","F","F">>, <<>> >>,
          << <<"#","0","0","0","0","0","0">>, <<>> >>,
          << <<"#","0","a","1","4","1","e">>, <<>> >>}

\* Color(...) of an extreme value; every one of these constructions succeeds
NewExtreme ==
    /\ ColorStep
    /\ Free # {}
    /\ \E args \in ExtremeArgs :
         \E out \in Color_init(args[1], args[2]) :
            /\ last' = [op |-> "Color", name |-> args[1], kwargs |-> args[2],
                        raised |-> out.raised, self |-> out.self]
            /\ colors' = IF out.raised = "none"
                         THEN [colors EXCEPT ![Lowest(Free)] = out.self] ELSE colors
    /\ nops' = nops + 1
    /\ UNCHANGED distVars

NextReach == NewExtreme \/ Invert \/ Mix \/ Or

SpecReach == Init /\ [][NextReach]_vars

(***************************************************************************)
(* C11: every Color reachable by successful constructions (hex strings and *)
(* in-range integer tuples, the extreme values included), invert() calls   *)
(* and mix()/| calls has red, green and blue each an integer in [0,255]:   *)
(* no operation leaves or returns a Color with a channel outside it.       *)
(***************************************************************************)
C11_InRange(c) ==
    /\ c.red \in 0..255
    /\ c.green \in 0..255
    /\ c.blue \in 0..255

C11_ChannelsInRange ==
    /\ \A i \in Allocated : C11_InRange(colors[i])
    /\ (last.op \in {"Color", "invert", "mix", "or"} /\ last.raised = "none") =>
          C11_InRange(last.self)
    /\ (last.op = "Color" /\ <<last.name, last.kwargs>> \in ExtremeArgs) =>
          last.raised = "none"
    /\ (last.op \in {"mix", "or"} /\ IsColor(last.y)
            /\ (last.op = "mix" => last.ratio[1] > 0 /\ last.ratio[2] > 0)) =>
          last.raised = "none"

\* Color(hsv=(360,100,100)) is (255,0,0); inverted it is (0,255,255); that
\* mixed with white at 0.5 is a Color again
C11_Witness ==
    /\ last.op = "mix"
    /\ last.ratio = <<1, 2>>
    /\ Color_rgb(last.x) = <<0, 255, 255>>
    /\ IsColor(last.y) /\ Color_rgb(last.y) = <<255, 255, 255>>
    /\ last.raised = "none"
    /\ Color_rgb(last.self) = <<170, 255, 255>>

(***************************************************************************)
(* The achromatic decodings: from_hsl(h, 0, l) and from_hsv(h, 0, v), for  *)
(* every percentage and the hues above.                                    *)
(***************************************************************************)
Percent == 0..100

GrayFromHsl ==
    /\ last.op = "none"
    /\ \E h \in HueValues, l \in Percent :
         \E out \in from_hsl(h, 0, l) :
            last' = [op |-> "gray_from_hsl", arg |-> <<h, 0, l>>, dec |-> out]
    /\ nops' = nops + 1
    /\ UNCHANGED <<colors, distVars>>

GrayFromHsv ==
    /\ last.op = "none"
    /\ \E h \in HueValues, v \in Percent :
         \E out \in from_hsv(h, 0, v) :
            last' = [op |-> "gray_from_hsv", arg |-> <<h, 0, v>>, dec |-> out]
    /\ nops' = nops + 1
    /\ UNCHANGED <<colors, distVars>>

NextRound == GrayFromHsl \/ GrayFromHsv

SpecRound == Init /\ [][NextRound]_vars

(***************************************************************************)
(* C12: a kernel output is the exact value rounded to the nearest integer, *)
(* a tie k + 1/2 going up to k + 1: for every achromatic input each        *)
(* channel of from_hsl(h, 0, l), and of from_hsv(h, 0, l), is l*255/100    *)
(* rounded half-up, so that l = 30 (exactly 76.5) gives 77.                *)
(***************************************************************************)
\* l*255/100 rounded half-up: the floor of l*255/100 + 1/2
C12_HalfUp(l) == (510 * l + 100) \div 200

C12_RoundsHalfUp ==
    last.op \in {"gray_from_hsl", "gray_from_hsv"} =>
        \A i \in 1..3 : last.dec[i] = C12_HalfUp(last.arg[3])

(***************************************************************************)
(* Screen and ScreenDistance                                               *)
(***************************************************************************)
\* the float literals 25.4 and 2.54
F25_4 == Rat(254, 10, FALSE)
F2_54 == Rat(254, 100, FALSE)

\* Screen.dpi and Screen.ppi: "winfo fpixels . 1i" of the display
Screen_ppi(display) == I2F(display)

\* "winfo fpixels . <amount><unit>" of the display: the pixels of an amount
\* of millimetres ("m"), centimetres ("c") or inches ("i")
fpixels(amount, unit, display) ==
    IF unit = "m" THEN FMul(I2F(amount), FDiv(I2F(display), F25_4))
    ELSE IF unit = "c" THEN FMul(I2F(amount), FDiv(I2F(display), F2_54))
    ELSE FMul(I2F(amount), I2F(display))

_tcl_units == [px |-> "", mm |-> "m", cm |-> "c", inch |-> "i"]

\* ScreenDistance.__new__: the instance made; the class attribute dpi is
\* set to Screen.ppi by the same call (see the actions)
ScreenDistance_new(px, mm, cm, inch, display) ==
    LET pixels(unit, amount) ==
            IF amount = 0 THEN I2F(0)
            ELSE IF unit # "px" THEN fpixels(amount, _tcl_units[unit], display)
            ELSE I2F(amount)
    IN  [distance |-> FAdd(FAdd(FAdd(FAdd(I2F(0), pixels("cm", cm)), pixels("px", px)),
                                 pixels("mm", mm)), pixels("inch", inch))]

\* round4, in units of 1/10000
round4(a) == round(FMul(a, I2F(10000)))

\* the properties px, mm, cm, inch; self.dpi is found on the class
ScreenDistance_px(self) == round4(self.distance)
ScreenDistance_mm(self, cls_dpi) == round4(FDiv(self.distance, FDiv(cls_dpi, F25_4)))
ScreenDistance_cm(self, cls_dpi) == round4(FDiv(self.distance, FDiv(cls_dpi, F2_54)))
ScreenDistance_inch(self, cls_dpi) == round4(FDiv(self.distance, cls_dpi))

Digits == <<"0","1","2","3","4","5","6","7","8","9">>
IsDigit(c) == \E i \in 1..10 : Digits[i] = c
DigitVal(c) == (CHOOSE i \in 1..10 : Digits[i] = c) - 1

RECURSIVE DecVal(_)
\* the number a non-empty string of decimal digits denotes
DecVal(s0) ==
    The({IF Len(s) = 1 THEN DigitVal(s[1])
         ELSE 10 * DecVal(SubSeq(s, 1, Len(s) - 1)) + DigitVal(s[Len(s)]) : s \in {s0}})

\* int(s) succeeds on the strings of digits (of the strings of the model)
IntParses(s) == Len(s) > 0 /\ \A i \in 1..Len(s) : IsDigit(s[i])

\* ScreenDistance.from_tcl: [raised, self]
ScreenDistance_from_tcl(tcl_value, display) ==
    IF Len(tcl_value) = 0 THEN [raised |-> "IndexError", self |-> NoAttrs]
    ELSE
        LET unit == tcl_value[Len(tcl_value)]
            rest == SubSeq(tcl_value, 1, Len(tcl_value) - 1)
        IN  IF ~IntParses(rest) THEN [raised |-> "ValueError", self |-> NoAttrs]
            ELSE IF unit = "c"
            THEN [raised |-> "none",
                  self |-> ScreenDistance_new(0, 0, DecVal(rest), 0, display)]
            ELSE IF unit = "m"
            THEN [raised |-> "none",
                  self |-> ScreenDistance_new(0, DecVal(rest), 0, 0, display)]
            ELSE IF unit = "i"
            THEN [raised |-> "none",
                  self |-> ScreenDistance_new(0, 0, 0, DecVal(rest), display)]
            ELSE [raised |-> "none",
                  self |-> ScreenDistance_new(DecVal(rest), 0, 0, 0, display)]

(***************************************************************************)
(* The life of ScreenDistance objects: constructions while the display     *)
(* changes its DPI.                                                        *)
(***************************************************************************)
DistOps == {"none", "display", "ScreenDistance", "ScreenDistance.from_tcl"}

\* one unit given, or nothing, or pixels and inches together
DistArgs ==
    {[px |-> 0, mm |-> 0, cm |-> 0, inch |-> 0],
     [px |-> 1, mm |-> 0, cm |-> 0, inch |-> 1]}
    \cup {[px |-> a, mm |-> 0, cm |-> 0, inch |-> 0] : a \in 1..MaxAmount}
    \cup {[px |-> 0, mm |-> a, cm |-> 0, inch |-> 0] : a \in 1..MaxAmount}
    \cup {[px |-> 0, mm |-> 0, cm |-> a, inch |-> 0] : a \in 1..MaxAmount}
    \cup {[px |-> 0, mm |-> 0, cm |-> 0, inch |-> a] : a \in 1..MaxAmount}
    \cup {[px |-> 96, mm |-> 0, cm |-> 0, inch |-> 0]}

\* the display is moved or rescaled: it reports another DPI
DisplayChange ==
    /\ last.op \in DistOps
    /\ \E d \in DpiValues \ {display_dpi} : display_dpi' = d
    /\ last' = [op |-> "display"]
    /\ UNCHANGED <<nops, colors, dpi, instances>>

\* ScreenDistance(px=.., mm=.., cm=.., inch=..)
NewDistance ==
    /\ last.op \in DistOps
    /\ Len(instances) < MaxInst
    /\ \E args \in DistArgs :
         instances' = Append(instances,
             ScreenDistance_new(args.px, args.mm, args.cm, args.inch, display_dpi))
    /\ dpi' = Screen_ppi(display_dpi)
    /\ last' = [op |-> "ScreenDistance"]
    /\ UNCHANGED <<nops, colors, display_dpi>>

NextDistance == DisplayChange \/ NewDistance

SpecDistance == Init /\ [][NextDistance]_vars

(***************************************************************************)
(* C9: constructing a later ScreenDistance under a different DPI leaves    *)
(* the mm, cm and inch readings of every earlier instance unchanged.       *)
(***************************************************************************)
C9_EarlierReadingsUnchanged ==
    [][\A i \in 1..Len(instances) :
          /\ ScreenDistance_mm(instances'[i], dpi') = ScreenDistance_mm(instances[i], dpi)
          /\ ScreenDistance_cm(instances'[i], dpi') = ScreenDistance_cm(instances[i], dpi)
          /\ ScreenDistance_inch(instances'[i], dpi') = ScreenDistance_inch(instances[i], dpi)
      ]_vars

(***************************************************************************)
(* ScreenDistance.from_tcl as a function of its argument, under either     *)
(* DPI of the display.                                                     *)
(***************************************************************************)
DigitInputs == {"0", "1", "2", "9"}
Suffixes == {<<>>, <<"c">>, <<"m">>, <<"i">>, <<"p">>}

TclInputs ==
    {<<>>}
    \cup UNION {{ds \o sfx : ds \in [1..n -> DigitInputs], sfx \in Suffixes} :
                  n \in 0..MaxDigits}

DistFromTcl ==
    /\ last.op \in {"none", "display"}
    /\ instances = <<>>
    /\ \E tcl_value \in TclInputs :
         LET out == ScreenDistance_from_tcl(tcl_value, display_dpi)
         IN  /\ last' = [op |-> "ScreenDistance.from_tcl", tcl_value |-> tcl_value,
                         raised |-> out.raised, self |-> out.self]
             /\ instances' = IF out.raised = "none" THEN <<out.self>> ELSE instances
             /\ dpi' = IF out.raised = "none" THEN Screen_ppi(display_dpi) ELSE dpi
    /\ UNCHANGED <<nops, colors, display_dpi>>

NextFromTcl == DisplayChange \/ DistFromTcl

SpecFromTcl == Init /\ [][NextFromTcl]_vars

(***************************************************************************)
(* C10: from_tcl decodes by the last character: digits N followed by c, m  *)
(* or i give the distance of N centimetres, millimetres or inches, and     *)
(* digits N with no suffix give exactly N pixels, all digits counting.     *)
(***************************************************************************)
C10_Digits(s) == Len(s) > 0 /\ \A i \in 1..Len(s) : IsDigit(s[i])

C10_DecodesByLastCharacter ==
    last.op = "ScreenDistance.from_tcl" =>
        LET s == last.tcl_value
            n == Len(s)
        IN  /\ (n > 1 /\ C10_Digits(SubSeq(s, 1, n - 1)) /\ s[n] \in {"c", "m", "i"}) =>
                  /\ last.raised = "none"
                  /\ FEq(last.self.distance,
                         fpixels(DecVal(SubSeq(s, 1, n - 1)), s[n], display_dpi))
            /\ C10_Digits(s) =>
                  /\ last.raised = "none"
                  /\ FEq(last.self.distance, I2F(DecVal(s)))

====
